---- MODULE Spec2Model ----
(***************************************************************************)
(* Length-prefixed object framing over a byte-at-a-time host channel       *)
(* (src/io.rs).  The host exposes getchar()/putchar(); the library builds   *)
(* println, read_until, read_n, write_vec and the framed read<T>/write<T>   *)
(* on them.  A call is an entry action followed by one step per getchar or  *)
(* putchar of its loops; the code between two channel calls (parsing the    *)
(* header, decoding the body, returning) belongs to the step before it, so  *)
(* a call that has started can only go on to its return or wait for input.  *)
(*                                                                          *)
(* SpecIn  explores the reading calls on arbitrary bytes typed by the host, *)
(* SpecOut the writing calls, SpecPipe write calls whose output the host    *)
(* pipes back to read calls, SpecQueue the calls that return a Result on    *)
(* inputs the host has queued, SpecLine read_line on typed bytes, SpecLive  *)
(* one reading call on a channel that never runs dry (with fairness), and   *)
(* SpecRace two callers of write sharing the channel.                       *)
(***************************************************************************)
EXTENDS Integers, Sequences, FiniteSets, TLC

VARIABLES
    tape,      \* host input: bytes queued for getchar, oldest first
    out,       \* host output: bytes handed to putchar and not yet piped back
    fn,        \* the public function being (or last) called
    arg,       \* its argument
    pc,        \* "idle" | "done" | the loop the call is in
    buf,       \* the Vec being filled (reads) or the slice left to emit (writes)
    bytes,     \* write's local `bytes` (the serialized body)
    cnt,       \* read_n: iterations of 0..n left
    ret,       \* the Result of the last call that returned
    used,      \* bytes the current/last call took from getchar, in order
    emitted,   \* bytes the current/last call gave to putchar, in order
    wrote,     \* values of the successful write calls whose frames are in `out`
    sent,      \* values whose frames are on `tape`, oldest first
    expect,    \* the value whose frame is at the head of `tape` when read starts
    fed,       \* bytes typed by the host so far
    calls,     \* calls made so far
    resumed,   \* the read in progress (or last) started right after a read
               \* that returned a body decode error
    other      \* the context of a second caller that is not running

vars == <<tape, out, fn, arg, pc, buf, bytes, cnt, ret, used, emitted,
          wrote, sent, expect, fed, calls, resumed, other>>

-----------------------------------------------------------------------------
(* Bounds of the exploration *)

MaxIn == 4        \* bytes the host types
MaxCalls == 2     \* calls of one run on typed input
MaxWrites == 2    \* write calls of one run on piped input
MaxN == 2         \* largest n passed to read_n directly
MaxLine == 2      \* bytes an endless channel supplies before the awaited one

-----------------------------------------------------------------------------
(* Bytes and byte strings *)

NL == 10          \* b'\n'
PLUS == 43        \* b'+'
MINUS == 45       \* b'-'
ZERO == 48        \* b'0'

\* Bytes the host may type: '\n' ' ' '+' '-' '0' '1' 'x' and 0xFF
Alphabet == {10, 32, 43, 45, 48, 49, 120, 255}

\* `getchar() as u8` / `putchar(b as u32)`: the u32 <-> u8 casts
AsU8(x) == x % 256
AsU32(b) == b

-----------------------------------------------------------------------------
(* Results: Ok(val) / Err(err) *)

NoVal == [T |-> "none", v |-> 0]
Ok(x) == [ok |-> TRUE, val |-> x, err |-> ""]
Err(e) == [ok |-> FALSE, val |-> NoVal, err |-> e]
NoRet == [ok |-> FALSE, val |-> NoVal, err |-> "pending"]

Unit == [T |-> "unit", v |-> 0]
Vec(b) == [T |-> "bytes", v |-> b]

-----------------------------------------------------------------------------
(* std: usize::to_string, str::from_utf8, usize::from_str *)

\* usize is 32 bits on the target (Valida): two 16-bit limbs
Limb == 65536

\* Faulty variant of to_string: the digits least significant first
RECURSIVE to_string_reversed(_)
to_string_reversed(n) ==
    IF n < 10 THEN <<ZERO + n>>
    ELSE <<ZERO + (n % 10)>> \o to_string_reversed(n \div 10)

\* Faulty variant of to_string: padded with zeros to two digits
to_string_padded(n) ==
    IF n < 10 THEN <<ZERO, ZERO + n>>
    ELSE <<ZERO + ((n \div 10) % 10), ZERO + (n % 10)>>

\* bytes.len().to_string().into_bytes(): decimal digits, most significant first
RECURSIVE to_string(_)
to_string(n) ==
    IF n < 10 THEN <<ZERO + n>>
    ELSE Append(to_string(n \div 10), ZERO + (n % 10))

IsCont(b) == b >= 128 /\ b <= 191

\* Bytes the UTF-8 scalar starting at s[1] takes; 0 when s does not start with one
Utf8Width(s) ==
    LET b == s[1]
        n == Len(s)
    IN  IF b < 128 THEN 1
        ELSE IF b >= 194 /\ b <= 223
             THEN IF n >= 2 /\ IsCont(s[2]) THEN 2 ELSE 0
        ELSE IF b >= 224 /\ b <= 239
             THEN IF /\ n >= 3
                     /\ IsCont(s[2]) /\ IsCont(s[3])
                     /\ (b = 224 => s[2] >= 160)
                     /\ (b = 237 => s[2] <= 159)
                  THEN 3 ELSE 0
        ELSE IF b >= 240 /\ b <= 244
             THEN IF /\ n >= 4
                     /\ IsCont(s[2]) /\ IsCont(s[3]) /\ IsCont(s[4])
                     /\ (b = 240 => s[2] >= 144)
                     /\ (b = 244 => s[2] <= 143)
                  THEN 4 ELSE 0
        ELSE 0

\* std::str::from_utf8(&bytes).is_ok()
RECURSIVE from_utf8(_)
from_utf8(s) ==
    IF s = <<>> THEN TRUE
    ELSE LET w == Utf8Width(s)
         IN  w > 0 /\ from_utf8(SubSeq(s, w + 1, Len(s)))

\* Faulty variant of ParseDigits: the arithmetic wraps modulo 2^32
RECURSIVE ParseDigits_wrapping(_, _, _)
ParseDigits_wrapping(s, hi, lo) ==
    IF s = <<>> THEN Ok(hi * Limb + lo)
    ELSE LET c == Head(s)
         IN  IF c < ZERO \/ c > ZERO + 9 THEN Err("InvalidDigit")
             ELSE LET l == lo * 10 + (c - ZERO)
                      h == hi * 10 + (l \div Limb)
                  IN  ParseDigits_wrapping(Tail(s), h % Limb, l % Limb)

\* The digit loop of from_str_radix(_, 10) for usize: checked_mul(10) then
\* checked_add(digit).  The accumulator is hi * Limb + lo.
RECURSIVE ParseDigits(_, _, _)
ParseDigits(s, hi, lo) ==
    IF s = <<>> THEN Ok(hi * Limb + lo)
    ELSE LET c == Head(s)
         IN  IF c < ZERO \/ c > ZERO + 9 THEN Err("InvalidDigit")
             ELSE LET l == lo * 10 + (c - ZERO)
                      h == hi * 10 + (l \div Limb)
                  IN  IF h >= Limb THEN Err("PosOverflow")
                      ELSE ParseDigits(Tail(s), h, l % Limb)

\* Faulty variant of ParseUsize: no sign is accepted
ParseUsize_unsigned(s) ==
    IF s = <<>> THEN Err("Empty")
    ELSE ParseDigits(s, 0, 0)

\* s.parse::<usize>(): an optional '+', then one or more digits; '-' is no digit
ParseUsize(s) ==
    IF s = <<>> THEN Err("Empty")
    ELSE IF Len(s) = 1 /\ (s[1] = PLUS \/ s[1] = MINUS) THEN Err("InvalidDigit")
    ELSE IF s[1] = PLUS THEN ParseDigits(Tail(s), 0, 0)
    ELSE ParseDigits(s, 0, 0)

\* read, lines 90-114: the length n of the header line, or the error returned
ParseHeader(line) ==
    IF ~from_utf8(line) THEN Err("Failed to convert input to UTF-8")
    ELSE IF ~ParseUsize(line).ok THEN Err("Failed to parse input as usize")
    ELSE ParseUsize(line)

\* i32::MAX
I32Max == 2147483647

\* The digit loop of from_str_radix(_, 10) for i32: checked_mul(10), then
\* checked_add(digit) for a positive number and checked_sub(digit) for a
\* negative one.  acc is the magnitude accumulated so far.
RECURSIVE ParseDigitsI32(_, _, _)
ParseDigitsI32(s, acc, neg) ==
    IF s = <<>> THEN Ok(IF neg THEN -acc ELSE acc)
    ELSE LET c == Head(s)
             d == c - ZERO
         IN  IF c < ZERO \/ c > ZERO + 9 THEN Err("InvalidDigit")
             ELSE IF acc <= (I32Max - d) \div 10
                  THEN ParseDigitsI32(Tail(s), acc * 10 + d, neg)
             ELSE IF neg /\ Tail(s) = <<>> /\ acc = I32Max \div 10 /\ d = 8
                  THEN Ok(-I32Max - 1)
             ELSE Err(IF neg THEN "NegOverflow" ELSE "PosOverflow")

\* s.parse::<i32>(): an optional '+' or '-', then one or more digits
ParseI32(s) ==
    IF s = <<>> THEN Err("Empty")
    ELSE IF Len(s) = 1 /\ (s[1] = PLUS \/ s[1] = MINUS) THEN Err("InvalidDigit")
    ELSE IF s[1] = PLUS THEN ParseDigitsI32(Tail(s), 0, FALSE)
    ELSE IF s[1] = MINUS THEN ParseDigitsI32(Tail(s), 0, TRUE)
    ELSE ParseDigitsI32(s, 0, FALSE)

\* <T as FromStr>::from_str for the types read_line is explored with
FromStr(T, s) == IF T = "i32" THEN ParseI32(s) ELSE ParseUsize(s)

\* char::is_whitespace (the White_Space property) on a three-byte scalar
IsWhitespace3(a, b, c) ==
    \/ a = 225 /\ b = 154 /\ c = 128
    \/ a = 226 /\ b = 128 /\ ((c >= 128 /\ c <= 138) \/ c = 168 \/ c = 169 \/ c = 175)
    \/ a = 226 /\ b = 129 /\ c = 159
    \/ a = 227 /\ b = 128 /\ c = 128

\* Bytes of the White_Space scalar a valid UTF-8 string starts with, 0 if none:
\* U+0009..U+000D, U+0020, U+0085, U+00A0, or one of the three-byte ones
WhitespaceFront(s) ==
    LET n == Len(s)
    IN  IF n >= 1 /\ ((s[1] >= 9 /\ s[1] <= 13) \/ s[1] = 32) THEN 1
        ELSE IF n >= 2 /\ s[1] = 194 /\ (s[2] = 133 \/ s[2] = 160) THEN 2
        ELSE IF n >= 3 /\ IsWhitespace3(s[1], s[2], s[3]) THEN 3
        ELSE 0

\* Bytes of the White_Space scalar a valid UTF-8 string ends with, 0 if none
WhitespaceBack(s) ==
    LET n == Len(s)
    IN  IF n >= 1 /\ ((s[n] >= 9 /\ s[n] <= 13) \/ s[n] = 32) THEN 1
        ELSE IF n >= 2 /\ s[n - 1] = 194 /\ (s[n] = 133 \/ s[n] = 160) THEN 2
        ELSE IF n >= 3 /\ IsWhitespace3(s[n - 2], s[n - 1], s[n]) THEN 3
        ELSE 0

RECURSIVE trim_start(_)
trim_start(s) ==
    IF WhitespaceFront(s) = 0 THEN s
    ELSE trim_start(SubSeq(s, WhitespaceFront(s) + 1, Len(s)))

RECURSIVE trim_end(_)
trim_end(s) ==
    IF WhitespaceBack(s) = 0 THEN s
    ELSE trim_end(SubSeq(s, 1, Len(s) - WhitespaceBack(s)))

\* Faulty variant of trim: only ASCII whitespace is stripped
RECURSIVE trim_ascii(_)
trim_ascii(s) ==
    IF s # <<>> /\ ((s[1] >= 9 /\ s[1] <= 13) \/ s[1] = 32) THEN trim_ascii(Tail(s))
    ELSE IF s # <<>> /\ ((s[Len(s)] >= 9 /\ s[Len(s)] <= 13) \/ s[Len(s)] = 32)
         THEN trim_ascii(SubSeq(s, 1, Len(s) - 1))
    ELSE s

\* str::trim(): leading and trailing White_Space scalars removed
trim(s) == trim_end(trim_start(s))

\* read_line, lines 50-56: from_utf8(&input)?.trim().parse()
parse_line(T, input) ==
    IF ~from_utf8(input) THEN Err("Utf8Error")
    ELSE LET r == FromStr(T, trim(input))
         IN  IF r.ok THEN Ok([T |-> T, v |-> r.val]) ELSE Err("ParseIntError")

-----------------------------------------------------------------------------
(* bincode::options().with_big_endian(): variable-length integers, big     *)
(* endian, trailing bytes rejected                                          *)

\* The k big-endian bytes of u
RECURSIVE BE(_, _)
BE(u, k) == IF k = 0 THEN <<>> ELSE Append(BE(u \div 256, k - 1), u % 256)

\* Faulty variant of FromBE: the bytes taken least significant first
RECURSIVE FromLE(_)
FromLE(s) == IF s = <<>> THEN 0 ELSE FromLE(Tail(s)) * 256 + Head(s)

\* The number k big-endian bytes denote
RECURSIVE FromBE(_)
FromBE(s) == IF s = <<>> THEN 0 ELSE FromBE(SubSeq(s, 1, Len(s) - 1)) * 256 + s[Len(s)]

\* Faulty variant of Varint: the fixed-width encoding, four bytes
Varint_fixint(u) == BE(u, 4)

\* VarintEncoding::serialize_varint of a number below 2^32: one byte up to 250,
\* else a marker byte (251: u16, 252: u32) and the number big-endian
Varint(u) ==
    IF u <= 250 THEN <<u>>
    ELSE IF u < Limb THEN <<251>> \o BE(u, 2)
    ELSE <<252>> \o BE(u, 4)

NoInt == [ok |-> FALSE, wide |-> FALSE, val |-> 0, rest |-> <<>>]

\* VarintEncoding::deserialize_varint: the number and the bytes left after it.
\* Marker 253 is followed by a u64 (`wide` when it is 2^32 or more), 254 and 255
\* are errors.
DeVarint(s) ==
    IF s = <<>> THEN NoInt
    ELSE LET b == Head(s)
             k == IF b = 251 THEN 2 ELSE IF b = 252 THEN 4 ELSE 8
         IN  IF b <= 250 THEN [ok |-> TRUE, wide |-> FALSE, val |-> b, rest |-> Tail(s)]
             ELSE IF b >= 254 THEN NoInt
             ELSE IF Len(s) < 1 + k THEN NoInt
             ELSE IF k = 8 /\ SubSeq(s, 2, 5) # <<0, 0, 0, 0>>
                  THEN [ok |-> TRUE, wide |-> TRUE, val |-> 0,
                        rest |-> SubSeq(s, 2 + k, Len(s))]
             ELSE [ok |-> TRUE, wide |-> FALSE, val |-> FromBE(SubSeq(s, 2, 1 + k)),
                   rest |-> SubSeq(s, 2 + k, Len(s))]

\* VarintEncoding::zigzag_encode / zigzag_decode
ZigZag(n) == IF n >= 0 THEN 2 * n ELSE -2 * n - 1
UnZigZag(u) == IF u % 2 = 0 THEN u \div 2 ELSE -((u + 1) \div 2)

\* Types whose serialization fails: a sequence of unknown length
Encodable(x) == x.T # "iter"

\* .serialize(value): the body bytes
Serialize(x) ==
    CASE x.T = "unit" -> <<>>
      [] x.T = "u32" -> Varint(x.v)
      [] x.T = "i32" -> Varint(ZigZag(x.v))
      [] x.T = "bytes" -> Varint(Len(x.v)) \o x.v
      [] OTHER -> <<>>

\* The value of type T at the front of s and the bytes left after it
DeValue(T, s) ==
    CASE T = "unit" -> [ok |-> TRUE, val |-> Unit, rest |-> s]
      [] T = "u32" ->
            LET d == DeVarint(s)
            IN  IF d.ok /\ ~d.wide
                THEN [ok |-> TRUE, val |-> [T |-> "u32", v |-> d.val], rest |-> d.rest]
                ELSE [ok |-> FALSE, val |-> NoVal, rest |-> <<>>]
      [] T = "i32" ->
            LET d == DeVarint(s)
            IN  IF d.ok /\ ~d.wide
                THEN [ok |-> TRUE, val |-> [T |-> "i32", v |-> UnZigZag(d.val)],
                      rest |-> d.rest]
                ELSE [ok |-> FALSE, val |-> NoVal, rest |-> <<>>]
      [] T = "bytes" ->
            LET d == DeVarint(s)
            IN  IF d.ok /\ ~d.wide /\ d.val <= Len(d.rest)
                THEN [ok |-> TRUE, val |-> Vec(SubSeq(d.rest, 1, d.val)),
                      rest |-> SubSeq(d.rest, d.val + 1, Len(d.rest))]
                ELSE [ok |-> FALSE, val |-> NoVal, rest |-> <<>>]
      [] OTHER -> [ok |-> FALSE, val |-> NoVal, rest |-> <<>>]

\* Faulty variant of Deserialize: bytes left after the value are ignored
Deserialize_allow_trailing(T, s) ==
    LET d == DeValue(T, s)
    IN  IF d.ok THEN Ok(d.val) ELSE Err("bincode")

\* .deserialize(&bytes): the value, or the codec's error when the bytes are no
\* encoding of T or bytes are left over
Deserialize(T, s) ==
    LET d == DeValue(T, s)
    IN  IF d.ok /\ d.rest = <<>> THEN Ok(d.val) ELSE Err("bincode")

-----------------------------------------------------------------------------
(* Arguments the calls are explored with *)

U32(n) == [T |-> "u32", v |-> n]
I32(n) == [T |-> "i32", v |-> n]
Iter == [T |-> "iter", v |-> 0]

Types == {"unit", "u32", "i32", "bytes"}

\* Values handed to write: every integer width of the codec, bodies that hold
\* a newline (10), a body of 10 bytes, and a value the codec cannot encode
Values ==
    {Unit, U32(10), U32(42), U32(251), U32(65536), I32(42), I32(-1),
     Vec(<<10, 49>>), Vec(<<120, 120, 120, 120, 120, 120, 120, 120, 120>>), Iter}

\* &str arguments of println, as their UTF-8 bytes: "", "hi", "e-acute"
Strings == {<<>>, <<104, 105>>, <<195, 169>>}

\* Arguments of write_vec
Slices == {<<>>, <<49, 10, 42>>}

\* Sentinels of read_until
Sentinels == {NL, 49}

\* Inputs the host has queued when a call starts reading: frames with a good
\* header and a body that is or is not an encoding ("2\n" 2A 2A, "2\n" FB 00,
\* "3\n" FB 00 05, "1\n" FF, "0\n", "1\n" 2A, "3\n" 02 0A 31), a header
\* that is no UTF-8 (FF "\n" 2A), and headers
\* of ten and eleven digits around 2^32 with a byte after them
\* ("4294967296", "9999999999", "04294967296", "99999999999", "2147483647")
Inputs ==
    {<<50, 10, 42, 42>>, <<50, 10, 251, 0>>, <<51, 10, 251, 0, 5>>,
     <<255, 10, 42>>, <<49, 10, 255>>, <<48, 10>>, <<49, 10, 42>>, <<51, 10, 2, 10, 49>>,
     <<52, 50, 57, 52, 57, 54, 55, 50, 57, 54, 10, 120>>,
     <<57, 57, 57, 57, 57, 57, 57, 57, 57, 57, 10, 120>>,
     <<48, 52, 50, 57, 52, 57, 54, 55, 50, 57, 54, 10, 120>>,
     <<57, 57, 57, 57, 57, 57, 57, 57, 57, 57, 57, 10, 120>>,
     <<50, 49, 52, 55, 52, 56, 51, 54, 52, 55, 10, 120>>}

\* Bytes an endless channel supplies while a line is read: '\n' '1' 'x'
LiveAlphabet == {10, 49, 120}

\* The byte it supplies while a body is read ('x'): which bytes a body holds
\* changes no step of read_n
LiveBody == 120

\* Values two concurrent callers hand to write
RaceValues == {Unit, U32(42), Vec(<<10, 49>>), Iter}

\* Types read_line is called with
LineTypes == {"i32", "usize"}

\* Bytes the host may type to read_line: '\n' ' ' '-' '1' '7', and 0xC2 0xA0,
\* together the no-break space U+00A0 and each alone no UTF-8
LineAlphabet == {10, 32, 45, 49, 55, 160, 194}

-----------------------------------------------------------------------------
(* The host channel *)

\* getchar() as u8: the oldest queued byte; the call waits while none is queued
Input == AsU8(Head(tape))

getchar ==
    /\ tape # <<>>
    /\ tape' = Tail(tape)
    /\ used' = Append(used, Input)
    /\ UNCHANGED <<out, emitted>>

\* putchar(c as u32)
putchar(c) ==
    /\ out' = Append(out, AsU32(c))
    /\ emitted' = Append(emitted, c)
    /\ UNCHANGED <<tape, used>>

-----------------------------------------------------------------------------
(* Control: where a call goes after a step.  Each of these fixes            *)
(* pc, buf, bytes, cnt, ret and wrote.                                       *)

Goto(p, b, body, n) ==
    /\ pc' = p
    /\ buf' = b
    /\ bytes' = body
    /\ cnt' = n
    /\ ret' = NoRet
    /\ wrote' = wrote

\* The call of f(a) returns r
Return(f, a, r) ==
    /\ pc' = "done"
    /\ buf' = <<>>
    /\ bytes' = <<>>
    /\ cnt' = 0
    /\ ret' = r
    /\ wrote' = IF f = "write" /\ r.ok THEN Append(wrote, a) ELSE wrote

\* read_until, line 70: Ok(result)
read_until_returns(result) == Ok(Vec(result))

\* Faulty variant of read_n_returns: a byte 0xFF, what `getchar() as u8` is at
\* the end of the input, is reported as an error
read_n_returns_eof(v) ==
    IF \E i \in 1..Len(v) : v[i] = 255 THEN Err("UnexpectedEof") ELSE Ok(Vec(v))

\* read_n, line 75: Ok(... .collect())
read_n_returns(v) == Ok(Vec(v))

\* write_vec, line 83: Ok(())
write_vec_returns == Ok(Unit)

\* read_n returned: read matches on its Result at lines 117-125 and decodes the
\* bytes at lines 128-131, a direct call has the Result
after_read_n(f, a, b) ==
    LET r == read_n_returns(b)
    IN  IF f = "read"
        THEN IF r.ok THEN Return(f, a, Deserialize(a, r.val.v))
             ELSE Return(f, a, Err("Failed to read n bytes"))
        ELSE Return(f, a, r)

\* Faulty variant of enter_read_n: the range is 0..=n
enter_read_n_inclusive(f, a, n) == Goto("read_n", <<>>, <<>>, n + 1)

\* Faulty variant of enter_read_n: the range is 1..n
enter_read_n_short(f, a, n) ==
    IF n <= 1 THEN after_read_n(f, a, <<>>)
    ELSE Goto("read_n", <<>>, <<>>, n - 1)

\* read_n(n): (0..n).map(getchar).collect()
enter_read_n(f, a, n) ==
    IF n = 0 THEN after_read_n(f, a, <<>>)
    ELSE Goto("read_n", <<>>, <<>>, n)

\* Faulty variant of after_read_until: a header that does not parse counts as 0
after_read_until_default(f, a, line) ==
    IF f = "read"
    THEN LET h == ParseHeader(line)
         IN  enter_read_n(f, a, IF h.ok THEN h.val ELSE 0)
    ELSE Return(f, a, Ok(Vec(line)))

\* read_until returned: read matches on its Result at lines 90-114, read_line
\* goes on at line 50 (`?` at line 49), a direct call has the Result
after_read_until(f, a, line) ==
    LET r == read_until_returns(line)
    IN  IF f = "read"
        THEN IF r.ok
             THEN LET h == ParseHeader(r.val.v)
                  IN  IF h.ok THEN enter_read_n(f, a, h.val)
                      ELSE Return(f, a, Err(h.err))
             ELSE Return(f, a, Err("Failed to read input"))
        ELSE IF f = "read_line"
        THEN IF r.ok THEN Return(f, a, parse_line(a, r.val.v)) ELSE Return(f, a, r)
        ELSE Return(f, a, r)

\* write_vec emitted its whole slice: after the header write goes on with
\* write_vec(&bytes), line 144, which emits nothing for an empty body
after_write_vec(f, a, p, body) ==
    LET r == write_vec_returns
    IN  IF ~r.ok THEN Return(f, a, r)
        ELSE IF p = "write_vec(&n)" /\ body # <<>>
        THEN Goto("write_vec(&bytes)", body, body, 0)
        ELSE Return(f, a, r)

\* write_vec(v): one putchar per element
enter_write_vec(f, a, p, v, body) ==
    IF v = <<>> THEN after_write_vec(f, a, p, body)
    ELSE Goto(p, v, body, 0)

-----------------------------------------------------------------------------
(* Calls *)

Idle == pc \in {"idle", "done"}

\* A call of f(a) starts
Enter(f, a) ==
    /\ Idle
    /\ fn' = f
    /\ arg' = a
    /\ calls' = calls + 1
    /\ tape' = tape
    /\ out' = out
    /\ used' = <<>>
    /\ emitted' = <<>>
    /\ fed' = fed
    /\ other' = other

\* The context of a caller: its call, where it is in it, and whether a switch
\* has so far taken a caller off the channel in the middle of a call
Context(f, a, p, b, body, n, r, u, e, s) ==
    [fn |-> f, arg |-> a, pc |-> p, buf |-> b, bytes |-> body, cnt |-> n,
     ret |-> r, used |-> u, emitted |-> e, split |-> s]

\* Faulty variant of Switch: a switch in the middle of a call goes unnoticed
Switch_unnoticed ==
    /\ other' = Context(fn, arg, pc, buf, bytes, cnt, ret, used, emitted, FALSE)
    /\ fn' = other.fn
    /\ arg' = other.arg
    /\ pc' = other.pc
    /\ buf' = other.buf
    /\ bytes' = other.bytes
    /\ cnt' = other.cnt
    /\ ret' = other.ret
    /\ used' = other.used
    /\ emitted' = other.emitted
    /\ UNCHANGED <<tape, out, wrote, sent, expect, fed, calls, resumed>>

\* The two callers share the channel without a lock: the running one can be
\* taken off between any two channel calls and the other one goes on
Switch ==
    /\ other' = Context(fn, arg, pc, buf, bytes, cnt, ret, used, emitted,
                        other.split \/ ~Idle)
    /\ fn' = other.fn
    /\ arg' = other.arg
    /\ pc' = other.pc
    /\ buf' = other.buf
    /\ bytes' = other.bytes
    /\ cnt' = other.cnt
    /\ ret' = other.ret
    /\ used' = other.used
    /\ emitted' = other.emitted
    /\ UNCHANGED <<tape, out, wrote, sent, expect, fed, calls, resumed>>

\* println(s)
println(s) ==
    /\ Enter("println", s)
    /\ Goto("println", s, <<>>, 0)
    /\ UNCHANGED <<sent, expect, resumed>>

\* Faulty variant of println_step: returns after the last byte of s
println_step_no_newline ==
    /\ pc = "println"
    /\ putchar(IF buf # <<>> THEN Head(buf) ELSE NL)
    /\ IF Len(buf) <= 1
       THEN Return(fn, arg, Ok(Unit))
       ELSE Goto("println", Tail(buf), <<>>, 0)
    /\ UNCHANGED <<fn, arg, sent, expect, fed, calls, resumed, other>>

\* println, lines 38-41: the bytes of s, then '\n'
println_step ==
    /\ pc = "println"
    /\ IF buf # <<>>
       THEN /\ putchar(Head(buf))
            /\ Goto("println", Tail(buf), <<>>, 0)
       ELSE /\ putchar(NL)
            /\ Return(fn, arg, Ok(Unit))
    /\ UNCHANGED <<fn, arg, sent, expect, fed, calls, resumed, other>>

\* read_until(c)
read_until(c) ==
    /\ Enter("read_until", c)
    /\ Goto("read_until", <<>>, <<>>, 0)
    /\ UNCHANGED <<sent, expect, resumed>>

\* Faulty variant of read_until_step: the byte is pushed before it is compared
read_until_step_inclusive ==
    /\ pc = "read_until"
    /\ getchar
    /\ IF Input = (IF fn = "read_until" THEN arg ELSE NL)
       THEN after_read_until(fn, arg, Append(buf, Input))
       ELSE Goto("read_until", Append(buf, Input), <<>>, 0)
    /\ UNCHANGED <<fn, arg, sent, expect, fed, calls, resumed, other>>

\* Faulty variant of read_until_step: c is skipped while nothing is collected
read_until_step_skip_leading ==
    /\ pc = "read_until"
    /\ getchar
    /\ IF Input = (IF fn = "read_until" THEN arg ELSE NL) /\ buf # <<>>
       THEN after_read_until(fn, arg, buf)
       ELSE Goto("read_until", buf \o (IF Input = (IF fn = "read_until" THEN arg ELSE NL)
                                       THEN <<>> ELSE <<Input>>), <<>>, 0)
    /\ UNCHANGED <<fn, arg, sent, expect, fed, calls, resumed, other>>

\* read_until, lines 62-69: one iteration of the loop
read_until_step ==
    /\ pc = "read_until"
    /\ getchar
    /\ IF Input = (IF fn = "read_until" THEN arg ELSE NL)
       THEN after_read_until(fn, arg, buf)
       ELSE Goto("read_until", Append(buf, Input), <<>>, 0)
    /\ UNCHANGED <<fn, arg, sent, expect, fed, calls, resumed, other>>

\* read_n(n)
read_n(n) ==
    /\ Enter("read_n", n)
    /\ enter_read_n("read_n", n, n)
    /\ UNCHANGED <<sent, expect, resumed>>

\* Faulty variant of read_n_step: the last byte read is not collected
read_n_step_drop_last ==
    /\ pc = "read_n"
    /\ getchar
    /\ IF cnt = 1
       THEN after_read_n(fn, arg, buf)
       ELSE Goto("read_n", Append(buf, Input), <<>>, cnt - 1)
    /\ UNCHANGED <<fn, arg, sent, expect, fed, calls, resumed, other>>

\* read_n, line 75: one getchar of the map
read_n_step ==
    /\ pc = "read_n"
    /\ getchar
    /\ IF cnt = 1
       THEN after_read_n(fn, arg, Append(buf, Input))
       ELSE Goto("read_n", Append(buf, Input), <<>>, cnt - 1)
    /\ UNCHANGED <<fn, arg, sent, expect, fed, calls, resumed, other>>

\* write_vec(v)
write_vec(v) ==
    /\ Enter("write_vec", v)
    /\ enter_write_vec("write_vec", v, "write_vec", v, <<>>)
    /\ UNCHANGED <<sent, expect, resumed>>

\* write_vec, lines 80-82: one putchar of the for_each
write_vec_step ==
    /\ pc \in {"write_vec", "write_vec(&n)", "write_vec(&bytes)"}
    /\ putchar(Head(buf))
    /\ IF Len(buf) = 1
       THEN after_write_vec(fn, arg, pc, bytes)
       ELSE Goto(pc, Tail(buf), bytes, 0)
    /\ UNCHANGED <<fn, arg, sent, expect, fed, calls, resumed, other>>

\* read::<T>(): starts with read_until(b'\n')
read(T) ==
    /\ Enter("read", T)
    /\ Goto("read_until", <<>>, <<>>, 0)
    /\ expect' = IF sent # <<>> THEN Head(sent) ELSE NoVal
    /\ sent' = IF sent # <<>> THEN Tail(sent) ELSE sent
    /\ resumed' = (pc = "done" /\ fn = "read" /\ ret.err = "bincode")

\* read_line::<T>(): starts with read_until(b'\n')
read_line(T) ==
    /\ Enter("read_line", T)
    /\ Goto("read_until", <<>>, <<>>, 0)
    /\ UNCHANGED <<sent, expect, resumed>>

\* Faulty variant of write: the header is emitted before the encoding is known
\* to have failed
write_header_first(value) ==
    /\ Enter("write", value)
    /\ LET body == Serialize(value)
           n == Append(to_string(Len(body)), NL)
       IN  enter_write_vec("write", value, "write_vec(&n)", n, body)
    /\ UNCHANGED <<sent, expect, resumed>>

\* write(&value), lines 137-142: serialize, then write_vec(&n)
write(value) ==
    /\ Enter("write", value)
    /\ IF Encodable(value)
       THEN LET body == Serialize(value)
                n == Append(to_string(Len(body)), NL)
            IN  enter_write_vec("write", value, "write_vec(&n)", n, body)
       ELSE Return("write", value, Err("bincode"))
    /\ UNCHANGED <<sent, expect, resumed>>

-----------------------------------------------------------------------------
(* The host *)

\* The host types a byte for the getchar that is waiting
HostType(b) ==
    /\ pc \in {"read_until", "read_n"}
    /\ tape = <<>>
    /\ fed < MaxIn
    /\ tape' = <<b>>
    /\ fed' = fed + 1
    /\ UNCHANGED <<out, fn, arg, pc, buf, bytes, cnt, ret, used, emitted,
                   wrote, sent, expect, calls, resumed, other>>

\* The host has a whole input queued for the first getchar
HostQueue(s) ==
    /\ pc \in {"read_until", "read_n"}
    /\ tape = <<>>
    /\ fed = 0
    /\ tape' = s
    /\ fed' = Len(s)
    /\ UNCHANGED <<out, fn, arg, pc, buf, bytes, cnt, ret, used, emitted,
                   wrote, sent, expect, calls, resumed, other>>

\* The byte the read_until in progress waits for
Sentinel == IF fn = "read_until" THEN arg ELSE NL

\* A channel that keeps supplying bytes: it has a byte for every getchar, and
\* the byte a read_until waits for comes after at most MaxLine others
HostKeeps(b) ==
    /\ pc \in {"read_until", "read_n"}
    /\ tape = <<>>
    /\ pc = "read_until" => (Len(buf) < MaxLine \/ b = Sentinel)
    /\ pc = "read_n" => b = LiveBody
    /\ tape' = <<b>>
    /\ UNCHANGED <<out, fn, arg, pc, buf, bytes, cnt, ret, used, emitted,
                   wrote, sent, expect, fed, calls, resumed, other>>

\* The host pipes what the program wrote back to its input
HostLoop ==
    /\ Idle
    /\ out # <<>>
    /\ tape' = tape \o out
    /\ out' = <<>>
    /\ sent' = sent \o wrote
    /\ wrote' = <<>>
    /\ UNCHANGED <<fn, arg, pc, buf, bytes, cnt, ret, used, emitted,
                   expect, fed, calls, resumed, other>>

-----------------------------------------------------------------------------
(* Specifications *)

Init ==
    /\ tape = <<>>
    /\ out = <<>>
    /\ fn = "none"
    /\ arg = 0
    /\ pc = "idle"
    /\ buf = <<>>
    /\ bytes = <<>>
    /\ cnt = 0
    /\ ret = NoRet
    /\ used = <<>>
    /\ emitted = <<>>
    /\ wrote = <<>>
    /\ sent = <<>>
    /\ expect = NoVal
    /\ fed = 0
    /\ calls = 0
    /\ resumed = FALSE
    /\ other = Context("none", 0, "idle", <<>>, <<>>, 0, NoRet, <<>>, <<>>, FALSE)

\* Reading calls, on input the host types
NextIn ==
    \/ \E c \in Sentinels : calls < MaxCalls /\ read_until(c)
    \/ \E n \in 0..MaxN : calls < MaxCalls /\ read_n(n)
    \/ \E T \in Types : calls < MaxCalls /\ read(T)
    \/ read_until_step
    \/ read_n_step
    \/ \E b \in Alphabet : HostType(b)

SpecIn == Init /\ [][NextIn]_vars

\* All calls that return a Result, on an input the host has queued
NextQueue ==
    \/ \E c \in Sentinels : calls < MaxCalls /\ read_until(c)
    \/ \E n \in 0..MaxN : calls < MaxCalls /\ read_n(n)
    \/ \E v \in Slices : calls < MaxCalls /\ write_vec(v)
    \/ \E T \in Types : calls < MaxCalls /\ read(T)
    \/ read_until_step
    \/ read_n_step
    \/ write_vec_step
    \/ \E s \in Inputs : HostQueue(s)

SpecQueue == Init /\ [][NextQueue]_vars

\* One reading call on a channel that keeps supplying bytes
NextLive ==
    \/ \E c \in Sentinels : pc = "idle" /\ read_until(c)
    \/ \E n \in 0..MaxN : pc = "idle" /\ read_n(n)
    \/ \E T \in Types : pc = "idle" /\ read(T)
    \/ read_until_step
    \/ read_n_step
    \/ \E b \in LiveAlphabet : HostKeeps(b)

\* The program runs whenever it can (a getchar returns once a byte is there)
\* and the channel supplies a byte whenever one is awaited
SpecLive ==
    /\ Init
    /\ [][NextLive]_vars
    /\ WF_vars(read_until_step)
    /\ WF_vars(read_n_step)
    /\ WF_vars(\E b \in LiveAlphabet : HostKeeps(b))

\* Two callers, one write call each, interleaved at any channel call
NextRace ==
    \/ \E value \in RaceValues : fn = "none" /\ write(value)
    \/ write_vec_step
    \/ Switch

SpecRace == Init /\ [][NextRace]_vars

\* read_line calls, on input the host types
NextLine ==
    \/ \E T \in LineTypes : calls < MaxCalls /\ read_line(T)
    \/ read_until_step
    \/ \E b \in LineAlphabet : HostType(b)

SpecLine == Init /\ [][NextLine]_vars

\* Writing calls
NextOut ==
    \/ \E s \in Strings : calls < MaxCalls /\ println(s)
    \/ \E v \in Slices : calls < MaxCalls /\ write_vec(v)
    \/ \E value \in Values : calls < MaxCalls /\ write(value)
    \/ println_step
    \/ write_vec_step

SpecOut == Init /\ [][NextOut]_vars

\* write calls whose output the host pipes back to read calls
NextPipe ==
    \/ \E value \in Values : calls < MaxWrites /\ write(value)
    \/ \E T \in Types : read(T)
    \/ read_until_step
    \/ read_n_step
    \/ write_vec_step
    \/ HostLoop

SpecPipe == Init /\ [][NextPipe]_vars

-----------------------------------------------------------------------------
(* Vocabulary of the properties *)

\* The call of f has returned
Done(f) == pc = "done" /\ fn = f

\* Position of the first b in s, 0 when s holds none
FirstAt(s, b) ==
    IF \E i \in 1..Len(s) : s[i] = b
    THEN CHOOSE i \in 1..Len(s) : s[i] = b /\ \A j \in 1..(i - 1) : s[j] # b
    ELSE 0

\* The bytes of s before its first newline (all of s when it holds none)
Line(s) == IF FirstAt(s, NL) = 0 THEN s ELSE SubSeq(s, 1, FirstAt(s, NL) - 1)

\* The bytes of s after its first newline
AfterLine(s) == IF FirstAt(s, NL) = 0 THEN <<>> ELSE SubSeq(s, FirstAt(s, NL) + 1, Len(s))

IsPrefix(p, s) == Len(p) <= Len(s) /\ SubSeq(s, 1, Len(p)) = p

IsDigit(b) == b >= 48 /\ b <= 57

AllDigits(s) == \A i \in 1..Len(s) : IsDigit(s[i])

\* The number a string of decimal digits denotes
RECURSIVE DecimalValue(_)
DecimalValue(s) ==
    IF s = <<>> THEN 0
    ELSE DecimalValue(SubSeq(s, 1, Len(s) - 1)) * 10 + (s[Len(s)] - 48)

\* header := 1*DIGIT, no leading zeros except for the value 0
WireHeader(s) == s # <<>> /\ AllDigits(s) /\ (Len(s) > 1 => s[1] # 48)

\* The frame write emits for v, and the frames of a sequence of values
Frame(v) == to_string(Len(Serialize(v))) \o <<NL>> \o Serialize(v)

RECURSIVE Frames(_)
Frames(vs) == IF vs = <<>> THEN <<>> ELSE Frame(Head(vs)) \o Frames(Tail(vs))

HeaderErrors == {"Failed to convert input to UTF-8", "Failed to parse input as usize"}

-----------------------------------------------------------------------------
(* Properties of the framed protocol on piped input (SpecPipe) *)

\* C1: round trip.  When write(&v) succeeded and its frame is what a
\* read::<T>() for v's type T then consumes, the read returns Ok(v).
C1_RoundTrip ==
    (Done("read") /\ expect.T = arg) =>
        /\ ret.ok
        /\ ret.val.T = expect.T
        /\ ret.val.v = expect.v

\* A 5-byte integer body went through write, the pipe and read unchanged
C1_Witness ==
    /\ Done("read")
    /\ arg = "u32"
    /\ expect.T = "u32"
    /\ expect.v = 65536
    /\ ret.ok
    /\ ret.val.v = 65536
    /\ used = <<53, 10, 252, 0, 1, 0, 0>>

\* C2: ordering and alignment.  The k-th read consumes exactly the frame of
\* the k-th written value - its header digits, the newline and the n body
\* bytes the header announces - and returns that value when T is its type;
\* what is left unread is exactly the frames of the values not yet read, so
\* the next read starts at the next header, whatever bytes a body holds.
C2_OrderedAligned ==
    /\ Idle => /\ tape = Frames(sent)
               /\ out = Frames(wrote)
    /\ (Done("read") /\ expect.T # "none") =>
          /\ used = Frame(expect)
          /\ Len(used) = Len(Line(used)) + 1 + DecimalValue(Line(used))
          /\ expect.T = arg => (ret.ok /\ ret.val.T = expect.T /\ ret.val.v = expect.v)
    /\ (fn = "read" /\ pc # "done" /\ expect.T # "none") =>
          used \o tape = Frame(expect) \o Frames(sent)

\* The second of two reads returned the second value written, a body that
\* holds a newline, after the first read had consumed the first frame
C2_Witness ==
    /\ Done("read")
    /\ calls = 4
    /\ arg = "bytes"
    /\ ret.ok
    /\ ret.val.v = <<10, 49>>
    /\ used = <<51, 10, 2, 10, 49>>
    /\ tape = <<>>
    /\ sent = <<>>

\* C9 as stated: a 32-bit integer is written as a 4-byte big-endian body
\* whatever its value, 42 as "4", newline, 00 00 00 2A.
C9_FourByteBody ==
    (Done("write") /\ arg.T \in {"u32", "i32"}) =>
        /\ Line(emitted) = <<52>>
        /\ Len(AfterLine(emitted)) = 4
        /\ arg.v = 42 => emitted = <<52, 10, 0, 0, 0, 42>>

\* The number the codec writes for a 32-bit integer: itself when unsigned, its
\* zigzag image (0, -1, 1, -2, ... -> 0, 1, 2, 3, ...) when signed
Magnitude(x) == IF x.T = "u32" \/ x.v >= 0 THEN (IF x.T = "u32" THEN x.v ELSE 2 * x.v)
                ELSE -2 * x.v - 1

\* C9 as amended: writing the 32-bit integer 42 emits the header "1", the
\* newline and a 1-byte body - 2A for a u32, 54 (zigzag) for an i32 - 3 wire
\* bytes in all, and read on those 3 bytes returns 42; the codec as
\* configured in write/read is variable-length: a 32-bit integer takes 1 byte
\* up to 250, a marker FB and 2 big-endian bytes up to 65535, and a marker FC
\* and 4 big-endian bytes above.
C9_Integer42 ==
    /\ (Done("write") /\ arg.T = "u32" /\ arg.v = 42) => emitted = <<49, 10, 42>>
    /\ (Done("write") /\ arg.T = "i32" /\ arg.v = 42) => emitted = <<49, 10, 84>>
    /\ (Done("read") /\ arg = "u32" /\ used = <<49, 10, 42>>) =>
          (ret.ok /\ ret.val.T = "u32" /\ ret.val.v = 42)
    /\ (Done("read") /\ arg = "i32" /\ used = <<49, 10, 84>>) =>
          (ret.ok /\ ret.val.T = "i32" /\ ret.val.v = 42)
    /\ (Done("write") /\ arg.T \in {"u32", "i32"}) =>
          LET m == Magnitude(arg)
              body == AfterLine(emitted)
          IN  /\ ret.ok
              /\ m <= 250 => body = <<m>>
              /\ (m > 250 /\ m <= 65535) =>
                    body = <<251, m \div 256, m % 256>>
              /\ m > 65535 =>
                    body = <<252, m \div 16777216, (m \div 65536) % 256,
                             (m \div 256) % 256, m % 256>>

\* write(&42u32) emitted "1\n" 2A, the host piped it back, read returned 42
C9_Witness ==
    /\ Done("read")
    /\ arg = "u32"
    /\ expect.T = "u32"
    /\ expect.v = 42
    /\ used = <<49, 10, 42>>
    /\ ret.ok
    /\ ret.val.v = 42

\* C16: a body decode failure leaves the channel frame-aligned.  A read that
\* fails on a written frame fails with the codec's error having consumed
\* exactly that frame, its header line and the n body bytes the header
\* announces, so that what is left on the channel is the frames not yet read;
\* the read that follows consumes exactly the next frame and returns its
\* value when T is that value's type.
C16_AlignedAfterDecodeFailure ==
    /\ (Done("read") /\ ~ret.ok /\ expect.T # "none") =>
          /\ ret.err = "bincode"
          /\ used = Frame(expect)
          /\ Len(AfterLine(used)) = DecimalValue(Line(used))
          /\ tape = Frames(sent)
    /\ (fn = "read" /\ resumed /\ expect.T # "none") =>
          /\ IsPrefix(used, Frame(expect))
          /\ used \o tape = Frame(expect) \o Frames(sent)
          /\ pc = "done" => used = Frame(expect)
          /\ (pc = "done" /\ expect.T = arg) => ret = Ok(expect)

\* After a read that failed to decode the first frame, the next read
\* returned 42, the value of the second frame
C16_Witness ==
    /\ Done("read")
    /\ resumed
    /\ calls = 4
    /\ arg = "u32"
    /\ expect = U32(42)
    /\ ret = Ok(U32(42))
    /\ used = <<49, 10, 42>>
    /\ tape = <<>>

-----------------------------------------------------------------------------
(* Properties of the writing calls (SpecOut) *)

\* C3: header invariant.  The number the decimal header of a successful write
\* denotes is the number of body bytes the same call emitted after the newline.
C3_HeaderIsBodyLength ==
    (Done("write") /\ ret.ok) =>
        /\ FirstAt(emitted, NL) > 0
        /\ AllDigits(Line(emitted))
        /\ DecimalValue(Line(emitted)) = Len(AfterLine(emitted))

\* A write with a two-digit header: "10", newline, ten body bytes
C3_Witness ==
    /\ Done("write")
    /\ ret.ok
    /\ Line(emitted) = <<49, 48>>
    /\ Len(emitted) = 13

\* C4: wire format and order of a write.  The bytes of a write are, in this
\* order and nothing else, the body length in decimal without leading zeros
\* ("0" for an empty body) and without a newline among the digits, one
\* newline, and the serialized body in buffer order; while the header is being
\* emitted no body byte has crossed the channel; write takes no input byte.
C4_WireFormat ==
    fn = "write" =>
        /\ used = <<>>
        /\ pc = "write_vec(&n)" =>
              /\ FirstAt(emitted, NL) = 0
              /\ AllDigits(emitted)
        /\ pc = "write_vec(&bytes)" =>
              /\ WireHeader(Line(emitted))
              /\ IsPrefix(AfterLine(emitted), Serialize(arg))
              /\ AfterLine(emitted) # Serialize(arg)
        /\ (pc = "done" /\ ret.ok) =>
              /\ WireHeader(Line(emitted))
              /\ emitted = Line(emitted) \o <<NL>> \o Serialize(arg)

\* The empty body: write(&()) emitted "0" and the newline and nothing else
C4_Witness ==
    /\ Done("write")
    /\ ret.ok
    /\ arg.T = "unit"
    /\ emitted = <<48, 10>>

\* C10: println(s) emits the bytes of s in order and then one newline,
\* len(s) + 1 bytes in all, and takes no input byte.
C10_Println ==
    fn = "println" =>
        /\ used = <<>>
        /\ tape = <<>>
        /\ IsPrefix(emitted, arg \o <<NL>>)
        /\ pc = "done" =>
              /\ emitted = arg \o <<NL>>
              /\ Len(emitted) = Len(arg) + 1
        /\ pc # "done" => Len(emitted) <= Len(arg)

\* println("hi") emitted 'h', 'i', '\n'
C10_Witness ==
    /\ Done("println")
    /\ arg = <<104, 105>>
    /\ emitted = <<104, 105, 10>>

\* C12: write is all-or-nothing on an encode failure.  A write whose value
\* cannot be encoded returns the encode error having emitted no byte, neither
\* header nor body; a write that has emitted a byte holds the complete
\* encoding of its value, so no failure can follow a byte, and only an encode
\* failure makes write fail.
C12_EncodeFailureEmitsNothing ==
    fn = "write" =>
        /\ ~Encodable(arg) => (pc = "done" /\ ~ret.ok /\ emitted = <<>>)
        /\ (pc = "done" /\ ~ret.ok) => (emitted = <<>> /\ ~Encodable(arg))
        /\ emitted # <<>> =>
              /\ Encodable(arg)
              /\ pc # "done" => bytes = Serialize(arg)
              /\ pc = "done" => ret.ok

\* A write of a sequence of unknown length failed after an earlier call had
\* written: nothing was added to the output
C12_Witness ==
    /\ Done("write")
    /\ arg = Iter
    /\ ~ret.ok
    /\ ret.err = "bincode"
    /\ emitted = <<>>
    /\ out = <<48, 10>>
    /\ wrote = <<Unit>>

-----------------------------------------------------------------------------
(* Properties of the reading calls on arbitrary input (SpecIn) *)

\* C5: a malformed header stops read at the header line.  When the first line
\* does not parse as a length, read returns an error and has consumed exactly
\* the bytes up to and including the first newline.
C5_MalformedHeaderStops ==
    (fn = "read" /\ FirstAt(used, NL) > 0 /\ ~ParseHeader(Line(used)).ok) =>
        /\ pc = "done"
        /\ ~ret.ok
        /\ ret.err \in HeaderErrors
        /\ used = Line(used) \o <<NL>>
        /\ tape = <<>>

\* read::<T>() on "1x\n": an error, three bytes consumed
C5_Witness ==
    /\ Done("read")
    /\ used = <<49, 120, 10>>
    /\ ~ret.ok
    /\ ret.err = "Failed to parse input as usize"

\* The header line of the read in progress is complete
HeaderRead == fn = "read" /\ FirstAt(used, NL) > 0

\* read went on to the body phase: it is reading the body or has decoded it
Proceeds == pc = "read_n" \/ (pc = "done" /\ ret.err \notin HeaderErrors)

\* read gave up at the header
HeaderRejected == pc = "done" /\ ~ret.ok /\ ret.err \in HeaderErrors

\* C6 as stated: read goes on to the body phase only for a header of the wire
\* grammar (digits, no sign, no leading zeros) and rejects every other line.
C6_WireGrammarOnly ==
    HeaderRead => IF WireHeader(Line(used)) THEN Proceeds ELSE HeaderRejected

StripPlus(s) == IF s # <<>> /\ s[1] = 43 THEN Tail(s) ELSE s

RECURSIVE StripZeros(_)
StripZeros(s) == IF s # <<>> /\ s[1] = 48 THEN StripZeros(Tail(s)) ELSE s

\* s <= t for digit strings of equal length
RECURSIVE DigitsLE(_, _)
DigitsLE(s, t) ==
    IF s = <<>> THEN TRUE
    ELSE IF s[1] # t[1] THEN s[1] < t[1]
    ELSE DigitsLE(Tail(s), Tail(t))

\* The digits denote a number up to usize::MAX = 4294967295
FitsUsize(d) ==
    LET z == StripZeros(d)
    IN  \/ Len(z) < 10
        \/ Len(z) = 10 /\ DigitsLE(z, <<52, 50, 57, 52, 57, 54, 55, 50, 57, 53>>)

\* The lines usize's parser accepts: an optional '+', then one or more digits,
\* leading zeros allowed, denoting a number up to usize::MAX
ParsedHeader(s) ==
    /\ StripPlus(s) # <<>>
    /\ AllDigits(StripPlus(s))
    /\ FitsUsize(StripPlus(s))

\* C6 as amended: read goes on to the body phase exactly for the header lines
\* that are an optional '+' followed by one or more decimal digits (leading
\* zeros allowed) of a value up to usize::MAX, and then reads as many body
\* bytes as the digits denote; every other line - empty, "+", "-1", " 1",
\* "1 ", a line with a non-digit or with invalid UTF-8 - is rejected with a
\* header error.
C6_HeaderAcceptance ==
    HeaderRead =>
        IF ParsedHeader(Line(used))
        THEN /\ Proceeds
             /\ Len(AfterLine(used)) + (IF pc = "read_n" THEN cnt ELSE 0)
                   = DecimalValue(StripPlus(Line(used)))
        ELSE /\ HeaderRejected
             /\ used = Line(used) \o <<NL>>
             /\ ~from_utf8(Line(used))
                   <=> ret.err = "Failed to convert input to UTF-8"

\* read accepted the header "+1" and is in the body phase with one byte to read
C6_Witness ==
    /\ fn = "read"
    /\ used = <<43, 49, 10>>
    /\ pc = "read_n"
    /\ cnt = 1

\* C7: read_until(c) returns the bytes before the first c in channel order,
\* never c itself, and consumes exactly those bytes and that one c.
C7_ReadUntil ==
    fn = "read_until" =>
        /\ pc = "read_until" => (FirstAt(used, arg) = 0 /\ buf = used)
        /\ pc = "done" =>
              /\ ret.ok
              /\ FirstAt(ret.val.v, arg) = 0
              /\ used = ret.val.v \o <<arg>>
              /\ FirstAt(used, arg) = Len(used)

\* read_until(b'1') returned "+\n0" and consumed "+\n01"
C7_Witness ==
    /\ Done("read_until")
    /\ arg = 49
    /\ ret.val.v = <<43, 10, 48>>
    /\ used = <<43, 10, 48, 49>>

\* C8: read_n(n) returns the next n channel bytes in order, a sequence of
\* length exactly n, consumes exactly n bytes, and for n = 0 returns the empty
\* sequence without consuming a byte.
C8_ReadN ==
    fn = "read_n" =>
        /\ pc = "read_n" => (Len(used) < arg /\ buf = used /\ cnt = arg - Len(used))
        /\ pc = "done" =>
              /\ ret.ok
              /\ Len(ret.val.v) = arg
              /\ ret.val.v = used
              /\ Len(used) = arg
              /\ arg = 0 => (ret.val.v = <<>> /\ used = <<>>)

\* read_n(2) returned the two bytes the host typed, a newline among them
C8_Witness ==
    /\ Done("read_n")
    /\ arg = 2
    /\ ret.val.v = <<10, 49>>
    /\ used = <<10, 49>>

-----------------------------------------------------------------------------
(* Properties of the reading calls on queued input (SpecQueue) *)

\* The number the bytes of s denote, most significant first
RECURSIVE Number(_)
Number(s) == IF s = <<>> THEN 0 ELSE Number(SubSeq(s, 1, Len(s) - 1)) * 256 + s[Len(s)]

\* Bytes the codec's integer starting with marker byte m takes: itself up to
\* 250, else the marker and 2, 4 or 8 bytes; 254 and 255 start none
IntWidth(m) ==
    IF m <= 250 THEN 1
    ELSE IF m = 251 THEN 3
    ELSE IF m = 252 THEN 5
    ELSE IF m = 253 THEN 9
    ELSE 0

\* b is the complete encoding of one number below 2^32, and that number
IsInt32(b) ==
    /\ b # <<>>
    /\ Len(b) = IntWidth(b[1])
    /\ Len(b) = 9 => SubSeq(b, 2, 5) = <<0, 0, 0, 0>>

Int32Of(b) == IF Len(b) = 1 THEN b[1] ELSE Number(Tail(b))

\* body is a complete encoding of a value of type T with nothing after it
ValidBody(T, body) ==
    CASE T = "unit" -> body = <<>>
      [] T \in {"u32", "i32"} -> IsInt32(body)
      [] T = "bytes" ->
            \E k \in 1..Len(body) :
                /\ IsInt32(SubSeq(body, 1, k))
                /\ Len(body) - k = Int32Of(SubSeq(body, 1, k))
      [] OTHER -> FALSE

\* body ends before an encoding of a value of type T is complete
ShortBody(T, body) ==
    CASE T = "unit" -> FALSE
      [] T \in {"u32", "i32"} -> body = <<>> \/ Len(body) < IntWidth(body[1])
      [] T = "bytes" ->
            \/ body = <<>>
            \/ Len(body) < IntWidth(body[1])
            \/ /\ IsInt32(SubSeq(body, 1, IntWidth(body[1])))
               /\ Len(body) - IntWidth(body[1])
                     < Int32Of(SubSeq(body, 1, IntWidth(body[1])))
      [] OTHER -> FALSE

\* body is a complete encoding of a value of type T followed by more bytes
TrailingBody(T, body) ==
    \E k \in 0..(Len(body) - 1) : ValidBody(T, SubSeq(body, 1, k))

\* C13: a body that is no encoding of T is a decode error.  When the header is
\* a valid length n, read takes exactly n body bytes and returns a value of
\* type T exactly when those n bytes are one complete encoding of T; a body
\* that ends before the encoding does, a body with bytes after a complete
\* encoding, and any other body that is no encoding give the codec's error
\* and never a value.
C13_InvalidBodyIsError ==
    (Done("read") /\ ParsedHeader(Line(used))) =>
        LET body == AfterLine(used)
        IN  /\ Len(body) = DecimalValue(StripPlus(Line(used)))
            /\ ret.ok <=> ValidBody(arg, body)
            /\ ret.ok => ret.val.T = arg
            /\ ~ret.ok => (ret.err = "bincode" /\ ret.val = NoVal)
            /\ ShortBody(arg, body) => ~ret.ok
            /\ TrailingBody(arg, body) => ~ret.ok

\* read::<u32>() on "2\n" 2A 2A, a complete encoding of 42 and one more
\* byte: the codec's error
C13_Witness ==
    /\ Done("read")
    /\ arg = "u32"
    /\ used = <<50, 10, 42, 42>>
    /\ TrailingBody(arg, AfterLine(used))
    /\ ~ret.ok
    /\ ret.err = "bincode"

-----------------------------------------------------------------------------
(* Two callers writing at once (SpecRace) *)

\* o is a and b merged, each in its own order
RECURSIVE IsShuffle(_, _, _)
IsShuffle(o, a, b) ==
    IF o = <<>> THEN a = <<>> /\ b = <<>>
    ELSE \/ a # <<>> /\ Head(a) = Head(o) /\ IsShuffle(Tail(o), Tail(a), b)
         \/ b # <<>> /\ Head(b) = Head(o) /\ IsShuffle(Tail(o), a, Tail(b))

BothReturned == pc = "done" /\ other.pc = "done"

-----------------------------------------------------------------------------
(* Termination on a channel that keeps supplying bytes (SpecLive) *)

\* The input read has consumed holds a newline and, after a header that is a
\* length, at least as many bytes as the header declares
FrameComplete(s) ==
    /\ FirstAt(s, NL) > 0
    /\ ParsedHeader(Line(s)) => Len(AfterLine(s)) >= DecimalValue(StripPlus(Line(s)))

\* C14: termination.  read_n(n) returns after exactly n byte reads, with
\* n - k reads to go after k of them; read_until(c) has returned exactly when
\* c has been read, stays in its loop on every other byte, and returns once c
\* appears; read::<T>() has returned exactly when it has read a newline and,
\* after a header that is a length, as many bytes as the header declares, and
\* returns once the channel has supplied them.
C14_Termination ==
    /\ [](fn = "read_n" =>
            /\ pc # "done" => (pc = "read_n" /\ cnt > 0 /\ cnt = arg - Len(used))
            /\ pc = "done" => Len(used) = arg)
    /\ [](fn = "read_until" =>
            /\ pc = "done" <=> FirstAt(used, arg) > 0
            /\ pc # "done" => pc = "read_until")
    /\ [](fn = "read" =>
            /\ pc = "done" <=> FrameComplete(used)
            /\ pc # "done" => pc \in {"read_until", "read_n"})
    /\ (fn = "read_n") ~> Done("read_n")
    /\ (fn = "read_until") ~> Done("read_until")
    /\ (fn = "read") ~> Done("read")

\* read::<()>() returned after the header "11", the newline and 11 body bytes
C14_Witness ==
    /\ Done("read")
    /\ arg = "unit"
    /\ Line(used) = <<49, 49>>
    /\ Len(used) = 14
    /\ tape = <<>>

\* C17: the raw operations cannot fail.  read_until, read_n and write_vec
\* return Ok whatever the input; a read that fails fails with the header
\* UTF-8 error (exactly when the header line is no UTF-8), the header parse
\* error, or the codec's error on the body after a header that is a length;
\* no call returns "Failed to read input" or "Failed to read {n} bytes".
C17_OnlyThreeReadErrors ==
    /\ (pc = "done" /\ fn \in {"read_until", "read_n", "write_vec"}) => ret.ok
    /\ (Done("read") /\ ~ret.ok) =>
          /\ ret.err \in HeaderErrors \cup {"bincode"}
          /\ ret.err = "Failed to convert input to UTF-8" <=> ~from_utf8(Line(used))
          /\ ret.err = "bincode" <=> ParsedHeader(Line(used))
    /\ ret.err \notin {"Failed to read input", "Failed to read n bytes"}

\* read::<u32>() on "1\n" FF: read_n returned the byte FF, what getchar
\* yields at the end of the input, and the error is the codec's
C17_Witness ==
    /\ Done("read")
    /\ arg = "u32"
    /\ used = <<49, 10, 255>>
    /\ ~ret.ok
    /\ ret.err = "bincode"

-----------------------------------------------------------------------------
(* Properties of read_line on arbitrary input (SpecLine) *)

\* The UTF-8 encodings of ASCII whitespace (tab, LF, VT, FF, CR, space) and of
\* the scalars with the White_Space property
AsciiSpace == {<<9>>, <<10>>, <<11>>, <<12>>, <<13>>, <<32>>}

UnicodeSpace ==
    AsciiSpace
        \cup {<<194, 133>>, <<194, 160>>, <<225, 154, 128>>, <<226, 129, 159>>,
              <<227, 128, 128>>}
        \cup {<<226, 128, c>> : c \in (128..138) \cup {168, 169, 175}}

IsSuffix(p, s) == Len(p) <= Len(s) /\ SubSeq(s, Len(s) - Len(p) + 1, Len(s)) = p

\* s is a concatenation of members of ws
RECURSIVE AllOf(_, _)
AllOf(ws, s) ==
    \/ s = <<>>
    \/ \E w \in ws : IsPrefix(w, s) /\ AllOf(ws, SubSeq(s, Len(w) + 1, Len(s)))

\* s without its leading and trailing members of ws: the part s[i..j] that
\* neither starts nor ends with one, between two runs of them
Trimmed(ws, s) ==
    LET cut == CHOOSE c \in (1..(Len(s) + 1)) \X (0..Len(s)) :
                   /\ c[1] <= c[2] + 1
                   /\ AllOf(ws, SubSeq(s, 1, c[1] - 1))
                   /\ AllOf(ws, SubSeq(s, c[2] + 1, Len(s)))
                   /\ \A w \in ws : /\ ~IsPrefix(w, SubSeq(s, c[1], c[2]))
                                    /\ ~IsSuffix(w, SubSeq(s, c[1], c[2]))
    IN  SubSeq(s, cut[1], cut[2])

StripSign(s) == IF s # <<>> /\ (s[1] = 43 \/ s[1] = 45) THEN Tail(s) ELSE s

\* The digits denote a magnitude an i32 of that sign has: up to 2147483647,
\* or 2147483648 when negative
FitsI32(d, neg) ==
    LET z == StripZeros(d)
    IN  \/ Len(z) < 10
        \/ Len(z) = 10 /\ DigitsLE(z, <<50, 49, 52, 55, 52, 56, 51, 54, 52,
                                        IF neg THEN 56 ELSE 55>>)

\* The grammar of T: for i32 an optional sign and one or more digits of a
\* value in range, for usize an optional '+' and digits up to usize::MAX
Matches(T, t) ==
    IF T = "usize" THEN ParsedHeader(t)
    ELSE /\ StripSign(t) # <<>>
         /\ AllDigits(StripSign(t))
         /\ FitsI32(StripSign(t), t[1] = 45)

\* The number a text of T's grammar denotes
ValueOf(T, t) ==
    IF T = "i32" /\ t[1] = 45 THEN -DecimalValue(StripSign(t))
    ELSE DecimalValue(StripSign(t))

\* read_line consumes the bytes up to and including the first newline and no
\* more; a line that is not UTF-8 is a decode error; otherwise the line is
\* stripped of its leading and trailing members of ws, and the result is the
\* value of the stripped text when it is of T's grammar, a parse error when
\* it is not
LineContract(ws) ==
    fn = "read_line" =>
        /\ pc # "done" => (FirstAt(used, NL) = 0 /\ pc = "read_until")
        /\ pc = "done" =>
              /\ used = Line(used) \o <<NL>>
              /\ IF ~from_utf8(Line(used))
                 THEN ~ret.ok /\ ret.err = "Utf8Error"
                 ELSE LET t == Trimmed(ws, Line(used))
                      IN  IF Matches(arg, t)
                          THEN ret = Ok([T |-> arg, v |-> ValueOf(arg, t)])
                          ELSE ~ret.ok /\ ret.err = "ParseIntError"

\* C11 as stated: read_line consumes exactly the bytes up to and including the
\* first newline whether it succeeds or fails, returns the parse of the line
\* after trimming leading and trailing ASCII whitespace, fails with a decode
\* error on a line that is not UTF-8 and with a parse error when the trimmed
\* text is not of T's grammar.
C11_AsciiTrim == LineContract(AsciiSpace)

\* C11 as amended: the same, with the line trimmed of leading and trailing
\* Unicode whitespace (every scalar with the White_Space property, ASCII
\* whitespace and e.g. the no-break space U+00A0) before it is parsed.
C11_ReadLine == LineContract(UnicodeSpace)

\* read_line::<i32>() on " 17\n" returned 17 and consumed the four bytes
C11_Witness ==
    /\ Done("read_line")
    /\ arg = "i32"
    /\ used = <<32, 49, 55, 10>>
    /\ ret.ok
    /\ ret.val.v = 17

-----------------------------------------------------------------------------
(* The header at the limit of usize (SpecQueue) *)

\* C18: a header beyond usize::MAX is rejected.  A header line of one or more
\* digits whose value exceeds usize::MAX (2^32 - 1 on the target) makes read
\* return the header parse error at the newline, with no body byte consumed:
\* the value is never taken modulo 2^32.  A header of ten digits that fits is
\* accepted with its full value.
C18_HeaderOverflowRejected ==
    (fn = "read" /\ FirstAt(used, NL) > 0 /\ Line(used) # <<>> /\ AllDigits(Line(used))) =>
        /\ ~FitsUsize(Line(used)) =>
              /\ pc = "done"
              /\ ret = Err("Failed to parse input as usize")
              /\ used = Line(used) \o <<NL>>
              /\ cnt = 0
        /\ FitsI32(Line(used), FALSE) =>
              /\ Proceeds
              /\ Len(AfterLine(used)) + (IF pc = "read_n" THEN cnt ELSE 0)
                    = DecimalValue(Line(used))

\* read on "4294967296\n" and a further byte: 2^32, which modulo 2^32 is 0,
\* is a parse error, and the byte after the newline is still on the channel
C18_Witness ==
    /\ Done("read")
    /\ used = <<52, 50, 57, 52, 57, 54, 55, 50, 57, 54, 10>>
    /\ tape = <<120>>
    /\ ret = Err("Failed to parse input as usize")

====
